---- MODULE Spec2Model ----
(***************************************************************************)
(* A model of holoviews/annotators.py (AnnotationManager, Annotator and    *)
(* its concrete subclasses, the preprocess decorator) and of               *)
(* holoviews/plotting/bokeh/geometry.py (RectanglesPlot.get_data).         *)
(*                                                                         *)
(* Python objects are records whose fields are the instance attributes,    *)
(* so that reading an attribute the code never sets is an AttributeError.  *)
(* An operation returns [err |-> <exception class or "none">, ...] with    *)
(* the object as the call left it.                                         *)
(***************************************************************************)
EXTENDS Integers, Sequences, FiniteSets, TLC

VARIABLES ann, mgr, rect, last

vars == <<ann, mgr, rect, last>>

(***************************************************************************)
(* Bounds of the model.                                                    *)
(***************************************************************************)
MaxVerts == 2
MaxLayers == 2
MaxCoord == 2
MaxRects == 1
MaxEvents == 1
MaxCalls == 2

(***************************************************************************)
(* Small helpers.                                                          *)
(***************************************************************************)
Range(s) == {s[i] : i \in DOMAIN s}

Min2(a, b) == IF a <= b THEN a ELSE b

Max2(a, b) == IF a >= b THEN a ELSE b

Abs(a) == IF a < 0 THEN -a ELSE a

NoErr == "none"

(***************************************************************************)
(* geometry.py : RectanglesPlot.get_data                                   *)
(*                                                                         *)
(* An element is four coordinate columns of equal length, dimension i      *)
(* (0..3) being column i+1.  Halved values are kept exact as <<num, 2>>.   *)
(***************************************************************************)
Coord == 0..MaxCoord

RectElements ==
    UNION {[1..n -> [1..4 -> Coord]] : n \in 1..MaxRects}

\* element.dimension_values(kd): column kd (0-based) of the element
dimension_values(element, kd) == [i \in DOMAIN element |-> element[i][kd + 1]]

\* np.min([a, b], axis=0) and np.max([a, b], axis=0): element-wise
np_min(a, b) == [i \in DOMAIN a |-> Min2(a[i], b[i])]

np_max(a, b) == [i \in DOMAIN a |-> Max2(a[i], b[i])]

\* (a + b) / 2. as an exact fraction
HalfSum(a, b) == [i \in DOMAIN a |-> <<a[i] + b[i], 2>>]

Diff(a, b) == [i \in DOMAIN a |-> a[i] - b[i]]

\* inds = (1, 0, 3, 2) if self.invert_axes else (0, 1, 2, 3)
RectInds(invert_axes) == IF invert_axes THEN <<1, 0, 3, 2>> ELSE <<0, 1, 2, 3>>

\* a plausible slip: the corners are used as given, without min/max
get_data_unordered(element, invert_axes) ==
    LET inds == RectInds(invert_axes)
        x0 == dimension_values(element, inds[1])
        y0 == dimension_values(element, inds[2])
        x1 == dimension_values(element, inds[3])
        y1 == dimension_values(element, inds[4])
    IN  [x |-> HalfSum(x1, x0), y |-> HalfSum(y1, y0),
         width |-> Diff(x1, x0), height |-> Diff(y1, y0)]

get_data(element, invert_axes) ==
    LET inds == RectInds(invert_axes)
        rx0 == dimension_values(element, inds[1])
        ry0 == dimension_values(element, inds[2])
        rx1 == dimension_values(element, inds[3])
        ry1 == dimension_values(element, inds[4])
        x0 == np_min(rx0, rx1)
        x1 == np_max(rx0, rx1)
        y0 == np_min(ry0, ry1)
        y1 == np_max(ry0, ry1)
    IN  [x |-> HalfSum(x1, x0), y |-> HalfSum(y1, y0),
         width |-> Diff(x1, x0), height |-> Diff(y1, y0)]

NoData == [x |-> <<>>, y |-> <<>>, width |-> <<>>, height |-> <<>>]

RectInit ==
    \E e \in RectElements, inv \in BOOLEAN :
        rect = [element |-> e, invert_axes |-> inv, called |-> FALSE, data |-> NoData]

\* plot.get_data(element, ranges, style)
RectGetData ==
    /\ ~rect.called
    /\ rect' = [rect EXCEPT !.called = TRUE,
                            !.data = get_data(rect.element, rect.invert_axes)]
    /\ UNCHANGED <<ann, mgr, last>>

(***************************************************************************)
(* Elements (holoviews Path / Polygons / Points) as the annotators use     *)
(* them.  An element has key dimensions x, y, a list of value dimensions,  *)
(* and a list of objects (paths, polygons, or points with one vertex);     *)
(* every object holds one value per vertex for each value dimension.  The  *)
(* coordinates themselves are abstracted to a geometry tag.  None is the   *)
(* record [type |-> "None"].                                               *)
(***************************************************************************)
Cols == {"a", "b"}

VertexCols == {"v"}

\* calling a default-value factory: str() is '', int() is 0
Call(factory) == IF factory = "str" THEN "" ELSE "0"

KDims == <<"x", "y">>

NoneElement == [type |-> "None"]

IsNone(e) == e.type = "None"

NoOptions == [applied |-> FALSE]

\* Element.__contains__: the name of a key or value dimension
Contains(element, col) == col \in Range(element.kdims) \cup Range(element.vdims)

\* element_type(None): an element with no objects and no value dimensions
EmptyElement(type, interface) ==
    [type |-> type, interface |-> interface, kdims |-> KDims, vdims |-> <<>>,
     objs |-> <<>>, geom |-> "g0", options |-> NoOptions]

\* element.add_dimension(col, 0, init, True): a value dimension inserted at
\* position 0, holding init at every vertex
add_dimension(element, col, init) ==
    [element EXCEPT
        !.vdims = <<col>> \o element.vdims,
        !.objs = [i \in DOMAIN element.objs |->
                    [nv |-> element.objs[i].nv,
                     vals |-> [c \in Cols \cup VertexCols |->
                                 IF c = col
                                 THEN [v \in 1..element.objs[i].nv |-> init]
                                 ELSE element.objs[i].vals[c]]]]]

\* element.options(**opts)
options(element, opts) == [element EXCEPT !.options = opts]

RECURSIVE Unique(_)
\* the values of a sequence in order of first appearance
Unique(s) ==
    IF s = <<>> THEN <<>>
    ELSE IF s[Len(s)] \in Range(SubSeq(s, 1, Len(s) - 1))
    THEN Unique(SubSeq(s, 1, Len(s) - 1))
    ELSE Append(Unique(SubSeq(s, 1, Len(s) - 1)), s[Len(s)])

RECURSIVE unexpanded_values(_, _, _)
\* element.dimension_values(col, expanded=False): the distinct values of
\* each object in turn
unexpanded_values(element, col, i) ==
    IF i > Len(element.objs) THEN <<>>
    ELSE Unique(element.objs[i].vals[col]) \o unexpanded_values(element, col, i + 1)

\* the data of one column of an object of nv vertices: one value at every
\* vertex, or a value that changes after the first vertex
ColumnData(nv) ==
    {[v \in 1..nv |-> "u"], [v \in 1..nv |-> IF v = 1 THEN "u" ELSE "w"]}

\* the vertices of an object of an element of the given type
NumVerts(type) == IF type = "Points" THEN 1 ELSE MaxVerts

\* the elements a caller can hand to an annotator of the given element type:
\* no object, or one object with none, one or two of Cols present as value
\* dimensions
InputElements(type) ==
    {EmptyElement(type, "multitabular")} \cup
    {[type |-> type, interface |-> "multitabular", kdims |-> KDims, vdims |-> vd,
      objs |-> <<[nv |-> NumVerts(type),
                  vals |-> [c \in Cols \cup VertexCols |->
                              IF c \in Range(vd) THEN data[c] ELSE <<>>]]>>,
      geom |-> "g0", options |-> NoOptions] :
        vd \in {<<>>, <<"a">>, <<"a", "b">>},
        data \in [Cols -> ColumnData(NumVerts(type))]}

(***************************************************************************)
(* Annotation specs: a list of column names, or a dict from column name    *)
(* to default-value factory (iterated in insertion order).                 *)
(***************************************************************************)
ListSpec(cols) == [isdict |-> FALSE, cols |-> cols, fac |-> [c \in {} |-> "str"]]

DictSpec(cols, fac) == [isdict |-> TRUE, cols |-> cols, fac |-> fac]

AnnotationSpecs ==
    {ListSpec(<<>>), ListSpec(<<"a">>), ListSpec(<<"a", "b">>),
     DictSpec(<<"a">>, [c \in {"a"} |-> "str"]),
     DictSpec(<<"a", "b">>, [c \in {"a", "b"} |-> IF c = "a" THEN "str" ELSE "int"])}

\* the constructor's vertex_annotations and edit_vertices (path annotators)
VertexConfigs ==
    {<<ListSpec(<<>>), TRUE>>, <<DictSpec(<<"v">>, [c \in {"v"} |-> "int"]), FALSE>>}

(***************************************************************************)
(* The reactive-parameter state of an Annotator (self.param): the batching *)
(* flag and the queues of events and watchers that preprocess resets.      *)
(* SetAttr is Python's attribute assignment: the attribute is created when *)
(* the object does not have it yet.                                        *)
(***************************************************************************)
SetAttr(self, name, value) == (name :> value) @@ self

HasAttr(self, name) == name \in DOMAIN self

NoParamState ==
    [_BATCH_WATCH |-> FALSE, _TRIGGER |-> FALSE, _watchers |-> <<>>, _events |-> <<>>]

SetBatch(self, flag) == [self EXCEPT !.param._BATCH_WATCH = flag]

\* the parameters whose change re-runs _initialize (the param.depends list)
InitializeDepends == {"annotations", "object", "num_objects", "opts", "table_opts"}

\* the watchers of a parameter in the order they were installed: the
\* param.depends(watch=True) method first, then those added by param.watch
Watchers(self, name) ==
    (IF name \in InitializeDepends THEN <<"_initialize">> ELSE <<>>) \o
    LET OfName(w) == w.name = name
        added == SelectSeq(self._param_watchers, OfName)
    IN  [i \in DOMAIN added |-> added[i].fn]

\* _call_watcher with batching on: the event and the watcher are queued
Queue(self, name, watcher) ==
    [self EXCEPT !.param._events = Append(@, name),
                 !.param._watchers = IF watcher \in Range(@) THEN @ ELSE Append(@, watcher)]

RECURSIVE QueueAll(_, _, _, _)
QueueAll(self, name, watchers, i) ==
    IF i > Len(watchers) THEN self
    ELSE QueueAll(Queue(self, name, watchers[i]), name, watchers, i + 1)

\* the annotator after Parameter.__set__ has stored the value: with batching
\* on the watchers of the parameter are queued
Written(s1, name) ==
    IF s1.param._BATCH_WATCH THEN QueueAll(s1, name, Watchers(s1, name), 1) ELSE s1

\* Parameter.__set__ made by the annotator's own code on itself.  With
\* batching on the watchers of the parameter are queued, not invoked; with
\* batching off they would be invoked at once (calls records them).
param_write(r, name, value) ==
    [r EXCEPT !.self = Written(SetAttr(@, name, value), name),
              !.calls = IF r.self.param._BATCH_WATCH THEN @
                        ELSE @ \o Watchers(r.self, name)]

Ok(self) == [err |-> NoErr, self |-> self, calls |-> <<>>]

Raise(r, err) == [r EXCEPT !.err = err]

(***************************************************************************)
(* Annotator classes.                                                      *)
(***************************************************************************)
AnnotatorClasses == {"PathAnnotator", "PolyAnnotator", "PointAnnotator", "BoxAnnotator"}

IsPathAnnotator(self) == self.cls \in {"PathAnnotator", "PolyAnnotator"}

\* Annotator._element_type: the class_ of the object parameter
_element_type(cls) ==
    CASE cls = "PathAnnotator" -> "Path"
      [] cls = "PolyAnnotator" -> "Polygons"
      [] cls = "PointAnnotator" -> "Points"
      [] cls = "BoxAnnotator" -> "Path"

\* isinstance(element, type): Polygons is a subclass of Path
IsInstance(element, type) ==
    element.type = type \/ (type = "Path" /\ element.type = "Polygons")

\* the interface of an element the annotator constructs: for the path
\* annotators 'multitabular' is moved to the end of the datatype list
ConstructInterface(self) == IF IsPathAnnotator(self) THEN "other" ELSE "default"

\* the vertices of one object, each as an object of one vertex
SplitVertices(obj) ==
    [k \in 1..obj.nv |->
       [nv |-> 1,
        vals |-> [c \in DOMAIN obj.vals |->
                    IF obj.vals[c] = <<>> THEN <<>> ELSE <<obj.vals[c][k]>>]]]

RECURSIVE Flatten(_, _)
\* the rows of an element's columns: every vertex of every object in turn
Flatten(objs, i) ==
    IF i > Len(objs) THEN <<>>
    ELSE SplitVertices(objs[i]) \o Flatten(objs, i + 1)

\* one path through the given points
JoinVertices(points) ==
    IF points = <<>> THEN <<>>
    ELSE <<[nv |-> Len(points),
            vals |-> [c \in DOMAIN points[1].vals |->
                        IF points[1].vals[c] = <<>> THEN <<>>
                        ELSE [k \in 1..Len(points) |-> points[k].vals[c][1]]]]>>

\* the objects of an element of the given type built from the columns of
\* another element: Points has one point per row, a Path or Polygons built
\* from points has one path through them, and paths stay paths
ConvertObjs(element, type) ==
    IF type = "Points" THEN Flatten(element.objs, 1)
    ELSE IF element.type = "Points" THEN JoinVertices(element.objs)
    ELSE element.objs

\* self._element_type(element, ...): an element of the annotator's type,
\* empty when element is None, else built from the data and the dimensions
\* of the element given (a new element, so without its options)
Construct(self, element) ==
    IF IsNone(element)
    THEN EmptyElement(_element_type(self.cls), ConstructInterface(self))
    ELSE IF ~IsInstance(element, _element_type(self.cls))
    THEN [element EXCEPT !.type = _element_type(self.cls),
                         !.interface = ConstructInterface(self),
                         !.objs = ConvertObjs(element, _element_type(self.cls)),
                         !.options = NoOptions]
    ELSE element

\* PathAnnotator: init = self.annotations[col]() for a dict, '' for a list
PathInit(annotations, col) ==
    IF annotations.isdict THEN Call(annotations.fac[col]) ELSE ""

\* PointAnnotator, BoxAnnotator: init = self.annotations[col] for a dict,
\* None for a list
PlainInit(annotations, col) ==
    IF annotations.isdict THEN annotations.fac[col] ELSE "None"

RECURSIVE PathAddAnnotations(_, _, _, _)
\* PathAnnotator._init_element, the loop over self.annotations
PathAddAnnotations(annotations, i, element, validate) ==
    IF i > Len(annotations.cols)
    THEN [element |-> element, validate |-> validate]
    ELSE IF Contains(element, annotations.cols[i])
    THEN PathAddAnnotations(annotations, i + 1, element,
                            Append(validate, annotations.cols[i]))
    ELSE PathAddAnnotations(annotations, i + 1,
                            add_dimension(element, annotations.cols[i],
                                          PathInit(annotations, annotations.cols[i])),
                            validate)

RECURSIVE PathAddVertexAnnotations(_, _, _)
\* PathAnnotator._init_element, the loop over self.vertex_annotations
PathAddVertexAnnotations(vertex_annotations, i, element) ==
    IF i > Len(vertex_annotations.cols) THEN element
    ELSE IF Contains(element, vertex_annotations.cols[i])
    THEN PathAddVertexAnnotations(vertex_annotations, i + 1, element)
    ELSE PathAddVertexAnnotations(vertex_annotations, i + 1,
             add_dimension(element, vertex_annotations.cols[i],
                           PathInit(vertex_annotations, vertex_annotations.cols[i])))

RECURSIVE AddAnnotations(_, _, _)
\* PointAnnotator._init_element and BoxAnnotator._init_element, the loop over
\* self.annotations
AddAnnotations(annotations, i, element) ==
    IF i > Len(annotations.cols) THEN element
    ELSE IF Contains(element, annotations.cols[i])
    THEN AddAnnotations(annotations, i + 1, element)
    ELSE AddAnnotations(annotations, i + 1,
                        add_dimension(element, annotations.cols[i],
                                      PlainInit(annotations, annotations.cols[i])))

\* dict(tools=tools, color_index=None, **self.opts) with _tools = [] and
\* _extra_opts = {}
PathOpts(self) ==
    [applied |-> TRUE, tools |-> <<>>, color_index |-> "None", opts |-> self.opts]

\* dict(tools=tools, **self.opts)
PlainOpts(self) == [applied |-> TRUE, tools |-> <<>>, opts |-> self.opts]

\* PathAnnotator._init_element after the two loops: poly_data reads
\* self.element once for every column to validate, then the lengths of the
\* columns' distinct values are compared, then object is assigned
PathValidateAndCommit(self, validate, element) ==
    IF validate # <<>> /\ ~HasAttr(self, "element")
    THEN Raise(Ok(self), "AttributeError")
    ELSE IF validate # <<>>
            /\ Cardinality({Len(unexpanded_values(self.element, c, 1)) :
                              c \in Range(validate)}) # 1
    THEN Raise(Ok(self), "ValueError")
    ELSE param_write(Ok(self), "object", options(element, PathOpts(self)))

\* PathAnnotator._init_element after the loop over self.annotations
PathAfterAnnotations(self, r1) ==
    PathValidateAndCommit(self, r1.validate,
        PathAddVertexAnnotations(self.vertex_annotations, 1, r1.element))

PathAnnotator_init_element(self, element0) ==
    PathAfterAnnotations(self,
        PathAddAnnotations(self.annotations, 1, Construct(self, element0), <<>>))

PointAnnotator_init_element(self, object0) ==
    param_write(Ok(self), "object",
                options(AddAnnotations(self.annotations, 1, Construct(self, object0)),
                        PlainOpts(self)))

BoxAnnotator_init_element(self, element0) ==
    param_write(Ok(self), "object",
                options(AddAnnotations(self.annotations, 1, Construct(self, element0)),
                        PlainOpts(self)))

_init_element(self, object) ==
    CASE IsPathAnnotator(self) -> PathAnnotator_init_element(self, object)
      [] self.cls = "PointAnnotator" -> PointAnnotator_init_element(self, object)
      [] self.cls = "BoxAnnotator" -> BoxAnnotator_init_element(self, object)

(***************************************************************************)
(* Streams and tables.  A stream is a new object every time it is created: *)
(* its sid differs from the sid of the stream it replaces.  Its element    *)
(* is the snapshot of what the user has drawn (nothing, at first).  The    *)
(* links between element and tables are not modelled.                      *)
(***************************************************************************)
NewSid(self) == IF HasAttr(self, "_stream") THEN 1 - self._stream.sid ELSE 0

\* source.clone([]): the source without objects
EmptyClone(source) == [source EXCEPT !.objs = <<>>]

Stream(cls, sid, source, num_objects) ==
    [cls |-> cls, sid |-> sid, source |-> source, num_objects |-> num_objects,
     subscribers |-> <<>>, element |-> EmptyClone(source)]

add_subscriber(stream, subscriber) ==
    [stream EXCEPT !.subscribers = Append(@, subscriber)]

\* Table(table_data, annotations, []): table_data[a] is the first distinct
\* value of column a in every path of self._table_data().split()
\* (table_transforms is empty)
PathTable(self) ==
    [data |-> [a \in Range(self.annotations.cols) |->
                 [i \in DOMAIN self.object.objs |->
                    Unique(self.object.objs[i].vals[a])[1]]],
     kdims |-> self.annotations.cols, vdims |-> <<>>, opts |-> self.table_opts]

\* Table([], self.object.kdims, list(self.vertex_annotations))
PathVertexTable(self) ==
    [data |-> <<>>, kdims |-> self.object.kdims,
     vdims |-> self.vertex_annotations.cols, opts |-> self.table_opts]

\* self._vertex_stream = PolyEdit(...) if self.edit_vertices
WithVertexStream(s1) ==
    IF s1.edit_vertices
    THEN SetAttr(s1, "_vertex_stream", [cls |-> "PolyEdit", source |-> s1.object])
    ELSE s1

\* self._table, self._vertex_table and self._tables
WithPathTables(s1, table, vertex_table) ==
    SetAttr(SetAttr(SetAttr(s1, "_table", table), "_vertex_table", vertex_table),
            "_tables", <<[name |-> "N", table |-> table],
                         [name |-> "N Vertices", table |-> vertex_table]>>)

\* PathAnnotator._init_table after self._stream is set
PathTables(s1) == WithPathTables(WithVertexStream(s1), PathTable(s1), PathVertexTable(s1))

\* _init_table returned
TableOk(self) == [err |-> NoErr, self |-> self]

PathAnnotator_init_table(self) ==
    TableOk(PathTables(SetAttr(self, "_stream",
                               Stream("PolyDraw", NewSid(self), self.object,
                                      self.num_objects))))

\* self._table and self._tables
WithTable(s1, table) ==
    SetAttr(SetAttr(s1, "_table", table), "_tables", <<[name |-> "N", table |-> table]>>)

\* Table(table_data): the element's own dimensions and data
PointTable(self) ==
    [data |-> self.object.objs, kdims |-> self.object.kdims,
     vdims |-> self.object.vdims, opts |-> self.table_opts]

\* Table(table_data, [], self.annotations) for annotations given as a list
BoxTable(self) ==
    [data |-> self.object.objs, kdims |-> <<>>,
     vdims |-> self.annotations.cols, opts |-> self.table_opts]

\* BoxAnnotator._init_table after self._stream is set: self.annotations is
\* handed to Table as its value dimensions as it is, and Table takes a
\* list of dimensions, not a dict of factories
BoxTables(s1) ==
    IF s1.annotations.isdict THEN [err |-> "ValueError", self |-> s1]
    ELSE TableOk(WithTable(s1, BoxTable(s1)))

PointAnnotator_init_table(self) ==
    TableOk(WithTable(SetAttr(self, "_stream",
                              Stream("PointDraw", NewSid(self), self.object,
                                     self.num_objects)),
                      PointTable(self)))

BoxAnnotator_init_table(self) ==
    BoxTables(SetAttr(self, "_stream",
                      Stream("BoxEdit", NewSid(self), self.object, self.num_objects)))

_init_table(self) ==
    CASE IsPathAnnotator(self) -> PathAnnotator_init_table(self)
      [] self.cls = "PointAnnotator" -> PointAnnotator_init_table(self)
      [] self.cls = "BoxAnnotator" -> BoxAnnotator_init_table(self)

(***************************************************************************)
(* Annotator._initialize under the preprocess decorator.                   *)
(***************************************************************************)
\* _initialize after _init_table: the selection source, the editor tabs and
\* the subscription of _update_element to the new stream
InitializeWire(s2) ==
    [s2 EXCEPT !._selection.source = s2.object,
               !.editor = s2._tables,
               !._stream = add_subscriber(@, "_update_element")]

\* _initialize after _init_table: an exception ends the call
AfterTable(r1, t) ==
    IF t.err # NoErr THEN [r1 EXCEPT !.err = t.err, !.self = t.self]
    ELSE [r1 EXCEPT !.self = InitializeWire(t.self)]

\* _initialize after _init_element: an exception ends the call
InitializeTail(r1) ==
    IF r1.err # NoErr THEN r1
    ELSE AfterTable(r1, _init_table(r1.self))

\* the body of Annotator._initialize
Annotator_initialize(self, object0) ==
    InitializeTail(_init_element(self, IF IsNone(object0) THEN self.object ELSE object0))

\* preprocess.inner after function(*args) has returned; nothing of it runs
\* when the function raised
preprocess_exit(r) ==
    IF r.err # NoErr THEN r
    ELSE [r EXCEPT !.self.param._BATCH_WATCH = FALSE,
                   !.self.param._watchers = <<>>,
                   !.self.param._events = <<>>]

\* preprocess.inner
preprocess_inner(self, object) ==
    preprocess_exit(Annotator_initialize(SetBatch(self, TRUE), object))

\* the decorated method, as self._initialize(object) calls it
_initialize(self, object) == preprocess_inner(self, object)

(***************************************************************************)
(* _update_element, the subscriber of the interaction stream.              *)
(***************************************************************************)
\* param.discard_events on exit: the flag and the queues are put back
DiscardRestore(r, saved) ==
    [r EXCEPT !.self.param._BATCH_WATCH = saved._BATCH_WATCH,
              !.self.param._watchers = saved._watchers,
              !.self.param._events = saved._events]

\* with param.discard_events(self): self.object = element
DiscardingWrite(self, element) ==
    DiscardRestore(param_write(Ok(SetBatch(self, TRUE)), "object", element), self.param)

Annotator_update_element(self) == DiscardingWrite(self, self._stream.element)

\* path[col] = path[col][0] for every path and annotation column of a
\* multitabular element
Collapse(element, annotations) ==
    IF element.interface = "multitabular" /\ element.objs # <<>>
    THEN [element EXCEPT !.objs =
            [i \in DOMAIN element.objs |->
               [element.objs[i] EXCEPT !.vals =
                  [c \in DOMAIN @ |->
                     IF c \in Range(annotations.cols) /\ Len(@[c]) > 0
                     THEN <<@[c][1]>> ELSE @[c]]]]]
    ELSE element

\* PathAnnotator._update_element reads self._poly_stream, an attribute no
\* code sets
PathAnnotator_update_element(self) ==
    IF ~HasAttr(self, "_poly_stream") THEN Raise(Ok(self), "AttributeError")
    ELSE DiscardingWrite(self, Collapse(self._poly_stream.element, self.annotations))

_update_element(self) ==
    IF IsPathAnnotator(self) THEN PathAnnotator_update_element(self)
    ELSE Annotator_update_element(self)

(***************************************************************************)
(* Construction.                                                           *)
(***************************************************************************)
DefaultOpts == "opts0"

DefaultTableOpts == "topts0"

OptsValues == {"opts0", "opts1"}

TableOptsValues == {"topts0", "topts1"}

NumObjectsValues == {"None", "1"}

\* the parameters the classes declare
ParamNames(cls) ==
    {"name", "annotations", "object", "num_objects", "opts", "table_transforms",
     "table_opts"} \cup
    (IF cls \in {"PathAnnotator", "PolyAnnotator"}
     THEN {"edit_vertices", "show_vertices", "vertex_annotations", "vertex_style"}
     ELSE {})

\* the attributes every annotator has when _initialize is first called; the
\* pane base class watches object to refresh the pane
BaseAttrs(cls, object, annotations) ==
    [cls |-> cls, annotations |-> annotations, object |-> object,
     num_objects |-> "None", opts |-> DefaultOpts, table_opts |-> DefaultTableOpts,
     param |-> NoParamState,
     _param_watchers |-> <<[name |-> "object", fn |-> "_update_pane"]>>,
     _tables |-> <<>>, editor |-> <<>>, _selection |-> [source |-> NoneElement]]

\* the parameters only the path annotators declare
PathAttrs(base, vertex_annotations, edit_vertices) ==
    SetAttr(SetAttr(base, "vertex_annotations", vertex_annotations),
            "edit_vertices", edit_vertices)

\* Annotator.__init__ after self._initialize(object): self.plot, which is
\* not made when the initialization raised.  ParamMethod(self._get_plot)
\* watches the parameter _get_plot depends on, object, to refresh the pane.
InitPlot(r) ==
    IF r.err # NoErr THEN r
    ELSE [r EXCEPT !.self =
            SetAttr([@ EXCEPT !._param_watchers =
                                Append(@, [name |-> "object", fn |-> "update_pane"])],
                    "plot", "ParamMethod(_get_plot)")]

Annotator__init__(cls, object, annotations, vertex_annotations, edit_vertices) ==
    InitPlot(_initialize(IF cls \in {"PathAnnotator", "PolyAnnotator"}
                         THEN PathAttrs(BaseAttrs(cls, object, annotations),
                                        vertex_annotations, edit_vertices)
                         ELSE BaseAttrs(cls, object, annotations),
                         object))

(***************************************************************************)
(* Dispatch of parameter events (the param library, as annotators.py uses  *)
(* it): assignment of a parameter from outside, param.trigger, and the     *)
(* stream's notification of its subscribers.                               *)
(***************************************************************************)
Called(r, w) == [r EXCEPT !.calls = <<w>> \o @]

\* watcher.fn(): the param.depends watcher calls self._initialize()
RunWatcher(self, w) ==
    IF w = "_initialize" THEN Called(_initialize(self, NoneElement), w)
    ELSE Called(Ok(self), w)

Restored(r, saved) == [r EXCEPT !.self.param._BATCH_WATCH = saved]

Merge(calls, r2) == [r2 EXCEPT !.calls = calls \o @]

\* with batch_watch(self, run=False): watcher.fn(); the finally clause puts
\* the flag back
BatchWatched(r, w, saved) ==
    Merge(r.calls, Restored(RunWatcher(SetBatch(r.self, TRUE), w), saved))

\* _call_watcher
CallWatcher(r, name, w) ==
    IF r.err # NoErr THEN r
    ELSE IF r.self.param._BATCH_WATCH THEN [r EXCEPT !.self = Queue(@, name, w)]
    ELSE BatchWatched(r, w, FALSE)

RECURSIVE call_watchers(_, _, _, _)
\* Parameter.__set__, the loop over the watchers
call_watchers(r, name, watchers, i) ==
    IF i > Len(watchers) THEN r
    ELSE call_watchers(CallWatcher(r, name, watchers[i]), name, watchers, i + 1)

ClearQueues(r) == [r EXCEPT !.self.param._events = <<>>, !.self.param._watchers = <<>>]

RECURSIVE RunQueued(_, _, _)
\* _batch_call_watchers, the loop over the queued watchers
RunQueued(r, watchers, i) ==
    IF i > Len(watchers) \/ r.err # NoErr THEN r
    ELSE RunQueued(BatchWatched(r, watchers[i], r.self.param._BATCH_WATCH),
                   watchers, i + 1)

RECURSIVE _batch_call_watchers(_)
_batch_call_watchers(r) ==
    IF r.err # NoErr \/ r.self.param._events = <<>> THEN r
    ELSE _batch_call_watchers(RunQueued(ClearQueues(r), r.self.param._watchers, 1))

\* whether param's comparison finds two values of a parameter equal: None,
\* numbers and strings compare by value, lists and dicts item by item, and
\* anything else (an element, a class used as a factory) never compares
\* equal, not even to itself
IsEqual(name, old, value) ==
    IF name = "object" THEN IsNone(old) /\ IsNone(value)
    ELSE IF name = "annotations"
    THEN old = value /\ (value.isdict => value.cols = <<>>)
    ELSE old = value

\* onlychanged watchers are skipped when the value compares equal; a
\* trigger forces the event
Changed(self, name, value) ==
    \/ self.param._TRIGGER
    \/ ~IsEqual(name, self[name], value)

\* Parameter.__set__ after the watchers were called
AfterSet(r) ==
    IF r.err = NoErr /\ ~r.self.param._BATCH_WATCH THEN _batch_call_watchers(r) ELSE r

\* Parameter.__set__: annotator.<name> = value
Parameter__set__(self, name, value) ==
    AfterSet(call_watchers(Ok(SetAttr(self, name, value)), name,
                           IF Changed(self, name, value) THEN Watchers(self, name)
                           ELSE <<>>, 1))

\* Parameters.set_param after setattr
SetParamExit(r, saved) ==
    IF r.err # NoErr THEN Restored(r, FALSE)
    ELSE IF saved THEN Restored(r, saved)
    ELSE _batch_call_watchers(Restored(r, saved))

\* Parameters.set_param(**{name: value})
set_param(self, name, value) ==
    SetParamExit(Parameter__set__(SetBatch(self, TRUE), name, value),
                 self.param._BATCH_WATCH)

\* Parameters.trigger after set_param: not reached when a watcher raised
TriggerExit(r, events, watchers) ==
    IF r.err # NoErr THEN r
    ELSE [r EXCEPT !.self.param._TRIGGER = FALSE,
                   !.self.param._events = events,
                   !.self.param._watchers = watchers]

\* Parameters.trigger(name)
trigger(self, name) ==
    TriggerExit(set_param([self EXCEPT !.param._events = <<>>,
                                       !.param._watchers = <<>>,
                                       !.param._TRIGGER = TRUE],
                          name, self[name]),
                self.param._events, self.param._watchers)

\* subscriber(**contents)
RunSubscriber(r, subscriber) ==
    IF subscriber = "_update_element"
    THEN Merge(r.calls, Called(_update_element(r.self), subscriber))
    ELSE [r EXCEPT !.calls = Append(@, subscriber)]

RECURSIVE notify_subscribers(_, _)
\* Stream.trigger: every subscriber of the stream is called in turn
notify_subscribers(r, i) ==
    IF i > Len(r.self._stream.subscribers) \/ r.err # NoErr THEN r
    ELSE notify_subscribers(RunSubscriber(r, r.self._stream.subscribers[i]), i + 1)

\* the user draws or edits: the stream holds the new element and fires
stream_event(self, element) ==
    notify_subscribers(Ok([self EXCEPT !._stream.element = element]), 1)

\* what the user can have drawn on a source: the same objects moved, or none
StreamElements(source) ==
    {[source EXCEPT !.geom = g] : g \in {"g0", "g1"}} \cup {EmptyClone(source)}

(***************************************************************************)
(* AnnotationManager.  A layer is the annotator (there is one, held in the *)
(* variable ann), a plain element, or some other object.  A manager        *)
(* operation returns [err, self, annotator].                               *)
(***************************************************************************)
AnnotatorLayer == [cls |-> "Annotator"]

ElementLayer(e) == [cls |-> "Element", value |-> e]

IsAnnotator(layer) == layer.cls = "Annotator"

IsElement(layer) == layer.cls = "Element"

\* two plain elements to manage
StaticElements ==
    {EmptyElement("Points", "default"), [EmptyElement("Path", "default") EXCEPT !.geom = "g1"]}

\* objects that are neither an Annotator nor an Element
OtherLayers == {[cls |-> "str"], [cls |-> "NoneType"]}

ValidLayers == {AnnotatorLayer} \cup {ElementLayer(e) : e \in StaticElements}

LayerPool == ValidLayers \cup OtherLayers

ManagerOpts == "mopts0"

ManagerTableOpts == "mtopts0"

MOk(self, annotator) == [err |-> NoErr, self |-> self, annotator |-> annotator]

RECURSIVE PlotLayers(_, _, _, _)
\* _get_plot, the loop over self.layers: an Annotator contributes
\* layer.element, anything else itself
PlotLayers(layers, annotator, i, acc) ==
    IF i > Len(layers) THEN [err |-> NoErr, layers |-> acc]
    ELSE IF IsAnnotator(layers[i])
    THEN IF HasAttr(annotator, "element")
         THEN PlotLayers(layers, annotator, i + 1, Append(acc, annotator.element))
         ELSE [err |-> "AttributeError", layers |-> acc]
    ELSE PlotLayers(layers, annotator, i + 1, Append(acc, layers[i].value))

\* Overlay(layers).collate().opts(**self.opts)
Overlay(r, opts) == [err |-> r.err, value |-> [layers |-> r.layers, opts |-> opts]]

_get_plot(self, annotator) == Overlay(PlotLayers(self.layers, annotator, 1, <<>>), self.opts)

RECURSIVE EditorTables(_, _, _, _)
\* _update_editor, the loop over self.layers
EditorTables(layers, annotator, table_opts, i) ==
    IF i > Len(layers) THEN <<>>
    ELSE (IF IsAnnotator(layers[i])
          THEN [j \in DOMAIN annotator._tables |->
                  [name |-> annotator._tables[j].name,
                   table |-> [annotator._tables[j].table EXCEPT !.opts = table_opts]]]
          ELSE <<>>) \o EditorTables(layers, annotator, table_opts, i + 1)

\* self.editor[:] = tables needs the editor the constructor makes after the
\* layers were added
_update_editor(r) ==
    IF ~HasAttr(r.self, "editor") THEN [r EXCEPT !.err = "AttributeError"]
    ELSE [r EXCEPT !.self.editor =
            EditorTables(r.self.layers, r.annotator, r.self.table_opts, 1)]

\* the plot pane shows what _get_plot returned
ShowPlot(r, p) ==
    IF p.err # NoErr THEN [r EXCEPT !.err = p.err]
    ELSE [r EXCEPT !.self = SetAttr(@, "plot", p.value)]

\* the plot pane, once it exists, re-evaluates _get_plot when layers triggers
RefreshPlot(r) ==
    IF r.err # NoErr \/ ~HasAttr(r.self, "plot") THEN r
    ELSE ShowPlot(r, _get_plot(r.self, r.annotator))

\* self.param.trigger('layers'): _update_editor, then the plot pane
trigger_layers(r) == RefreshPlot(_update_editor(r))

\* annotator.param.watch(fn, name): the parameter must be declared
watch(annotator, fn, name) ==
    IF name \notin ParamNames(annotator.cls)
    THEN [err |-> "ValueError", annotator |-> annotator]
    ELSE [err |-> NoErr,
          annotator |-> [annotator EXCEPT !._param_watchers =
                                            Append(@, [name |-> name, fn |-> fn])]]

Watched(self, w) == [err |-> w.err, self |-> self, annotator |-> w.annotator]

\* self.layers.append(layer); self.param.trigger('layers')
AppendLayer(r, layer) ==
    IF r.err # NoErr THEN r
    ELSE trigger_layers([r EXCEPT !.self.layers = Append(@, layer)])

\* a plausible slip: the layer is appended before it is checked
add_layer_append_first(self, layer, annotator) ==
    IF IsAnnotator(layer)
    THEN AppendLayer(Watched(self, watch(annotator, "trigger_layers", "element")), layer)
    ELSE IF ~IsElement(layer)
    THEN [MOk([self EXCEPT !.layers = Append(@, layer)], annotator)
            EXCEPT !.err = "ValueError"]
    ELSE AppendLayer(MOk(self, annotator), layer)

add_layer(self, layer, annotator) ==
    IF IsAnnotator(layer)
    THEN AppendLayer(Watched(self, watch(annotator, "trigger_layers", "element")), layer)
    ELSE IF ~IsElement(layer)
    THEN [MOk(self, annotator) EXCEPT !.err = "ValueError"]
    ELSE AppendLayer(MOk(self, annotator), layer)

RECURSIVE AddLayers(_, _, _)
\* AnnotationManager.__init__, the loop over layers
AddLayers(r, layers, i) ==
    IF i > Len(layers) \/ r.err # NoErr THEN r
    ELSE AddLayers(add_layer(r.self, layers[i], r.annotator), layers, i + 1)

\* self.editor = Tabs(); self._update_editor()
InitEditor(r) ==
    IF r.err # NoErr THEN r
    ELSE _update_editor([r EXCEPT !.self = SetAttr(@, "editor", <<>>)])

\* self.plot = ParamMethod(self._get_plot) and what follows
InitPanes(r) ==
    IF r.err # NoErr THEN r
    ELSE InitEditor(ShowPlot(r, _get_plot(r.self, r.annotator)))

AnnotationManager__init__(layers, annotator) ==
    InitPanes(AddLayers(MOk([layers |-> <<>>, opts |-> ManagerOpts,
                             table_opts |-> ManagerTableOpts], annotator),
                        layers, 1))

(***************************************************************************)
(* The state machine.  ann is the annotator, mgr the manager, rect the     *)
(* rectangles plot; last records the latest call: the operation, the       *)
(* exception it raised, the watchers and subscribers it ran, its argument, *)
(* the valid layers the manager has been given so far, whether the         *)
(* annotator is as a re-initialization left it, the element the            *)
(* constructor was given, and the number of calls made on the annotator.   *)
(***************************************************************************)
NoCall ==
    [op |-> "none", err |-> NoErr, calls |-> <<>>, arg |-> "none",
     requested |-> <<>>, settled |-> FALSE, input |-> NoneElement, n |-> 0]

DefaultAnnotator ==
    Annotator__init__("PointAnnotator", NoneElement, ListSpec(<<"a">>),
                      ListSpec(<<>>), TRUE).self

DefaultManager == AnnotationManager__init__(<<>>, DefaultAnnotator).self

DefaultRect ==
    [element |-> <<>>, invert_axes |-> FALSE, called |-> FALSE, data |-> NoData]

\* the constructor of the annotator returned (it made the plot pane)
Constructed(self) == HasAttr(self, "plot")

\* the annotator is constructed and fewer than MaxCalls calls were made on it
Alive == Constructed(ann) /\ last.n < MaxCalls

\* the constructor of the manager returned: it made the editor
MgrAlive == HasAttr(mgr, "editor")

\* the values a caller assigns to a parameter
ParamValues(cls, name) ==
    CASE name = "annotations" -> AnnotationSpecs
      [] name = "object" -> {NoneElement} \cup InputElements(_element_type(cls))
      [] name = "num_objects" -> NumObjectsValues
      [] name = "opts" -> OptsValues
      [] name = "table_opts" -> TableOptsValues

\* the lambda add_layer installs on an annotator triggers the manager's layers
Notify(r) ==
    IF "trigger_layers" \in Range(r.calls)
    THEN trigger_layers(MOk(mgr, r.self)).self
    ELSE mgr

\* the annotator and the record of the call after an operation on the annotator
AnnDone(op, arg, r, settled) ==
    /\ ann' = r.self
    /\ mgr' = Notify(r)
    /\ last' = [last EXCEPT !.op = op, !.err = r.err, !.calls = r.calls,
                            !.arg = arg, !.settled = settled,
                            !.input = NoneElement, !.n = @ + 1]
    /\ UNCHANGED rect

\* annotator = cls(object, annotations=..., ...); when the constructor
\* raises, ann is the object as the exception left it and nothing more
\* is done with it
AnnConstructed(r, object) ==
    /\ ann = r.self
    /\ last = [NoCall EXCEPT !.op = "Annotator", !.err = r.err, !.calls = r.calls,
                             !.settled = TRUE, !.input = object]

AnnConstruct(cls, object, annotations, vertex_annotations, edit_vertices) ==
    AnnConstructed(Annotator__init__(cls, object, annotations, vertex_annotations,
                                     edit_vertices), object)

\* whether the annotator is as a re-initialization left it, after an assignment
SettledAfterSet(r, unchanged) ==
    IF "_initialize" \in Range(r.calls) THEN TRUE
    ELSE IF unchanged THEN last.settled ELSE FALSE

\* annotator.<name> = value
AnnSetParam(name, value) ==
    /\ Alive
    /\ ann.param._BATCH_WATCH => Len(ann.param._events) < MaxEvents
    /\ AnnDone("set", name, Parameter__set__(ann, name, value),
               SettledAfterSet(Parameter__set__(ann, name, value),
                               name # "object" /\ value = ann[name]))

\* whether the annotator is as a re-initialization left it, after a trigger
SettledAfterTrigger(r) ==
    IF "_initialize" \in Range(r.calls) THEN TRUE ELSE last.settled

\* annotator.param.trigger(name)
AnnTrigger(name) ==
    /\ Alive
    /\ AnnDone("trigger", name, trigger(ann, name), SettledAfterTrigger(trigger(ann, name)))

\* an element of a type that is not the annotator's: one object, no value
\* dimensions
ForeignElements(cls) ==
    {[type |-> t, interface |-> "multitabular", kdims |-> KDims, vdims |-> <<>>,
      objs |-> <<[nv |-> NumVerts(t), vals |-> [c \in Cols \cup VertexCols |-> <<>>]]>>,
      geom |-> "g0", options |-> NoOptions] :
        t \in {IF _element_type(cls) = "Path" THEN "Points" ELSE "Path"}}

\* annotator._initialize() and annotator._initialize(object)
AnnInitialize(object) ==
    /\ Alive
    /\ AnnDone("_initialize", IF IsNone(object) THEN "none" ELSE "element",
               Called(_initialize(ann, object), "_initialize"), TRUE)

\* what the user can draw on the annotator's plot
DrawnElements(self) ==
    IF Constructed(self) THEN StreamElements(self._stream.source) ELSE {}

\* the user draws or edits on the plot
AnnStreamEvent(element) ==
    /\ Alive
    /\ AnnDone("stream_event", "none", stream_event(ann, element), FALSE)

\* the manager and the record of the call after AnnotationManager(layers)
MgrConstructed(r, layers) ==
    /\ mgr' = r.self
    /\ ann' = r.annotator
    /\ last' = [NoCall EXCEPT !.op = "AnnotationManager", !.err = r.err,
                              !.requested = layers]
    /\ UNCHANGED rect

\* manager = AnnotationManager(layers)
MgrConstruct(layers) == MgrConstructed(AnnotationManager__init__(layers, ann), layers)

\* the manager and the record of the call after add_layer(layer)
MgrAdded(r, layer) ==
    /\ mgr' = r.self
    /\ ann' = r.annotator
    /\ last' = [last EXCEPT !.op = "add_layer", !.err = r.err, !.calls = <<>>,
                            !.arg = layer.cls,
                            !.requested = IF layer \in ValidLayers
                                          THEN Append(@, layer) ELSE @,
                            !.settled = FALSE, !.input = NoneElement]
    /\ UNCHANGED rect

\* manager.add_layer(layer)
MgrAddLayer(layer) ==
    /\ MgrAlive
    /\ Len(last.requested) < MaxLayers
    /\ MgrAdded(add_layer(mgr, layer, ann), layer)

\* the lists of layers a manager is constructed with
LayerLists == UNION {[1..n -> ValidLayers] : n \in 0..MaxLayers}

(***************************************************************************)
(* Spec: one annotator of any class, constructed with any annotations on   *)
(* any element, then assigned parameters, triggered, re-initialized and    *)
(* drawn on.                                                               *)
(***************************************************************************)
Init ==
    /\ \E cls \in AnnotatorClasses, annotations \in AnnotationSpecs, vc \in VertexConfigs :
         \E object \in {NoneElement} \cup InputElements(_element_type(cls)) :
            AnnConstruct(cls, object, annotations, vc[1], vc[2])
    /\ mgr = DefaultManager
    /\ rect = DefaultRect

Next ==
    \/ \E name \in InitializeDepends :
         \E value \in ParamValues(ann.cls, name) : AnnSetParam(name, value)
    \/ \E name \in InitializeDepends : AnnTrigger(name)
    \/ \E object \in {NoneElement} \cup ForeignElements(ann.cls) : AnnInitialize(object)
    \/ \E element \in DrawnElements(ann) : AnnStreamEvent(element)

Spec == Init /\ [][Next]_vars

(***************************************************************************)
(* SpecManager: a manager and a point annotator; managers are constructed, *)
(* layers added, the annotator drawn on and restyled.                      *)
(***************************************************************************)
InitManager ==
    /\ ann = DefaultAnnotator
    /\ mgr = DefaultManager
    /\ rect = DefaultRect
    /\ last = NoCall

NextManager ==
    \/ \E layers \in LayerLists : MgrConstruct(layers)
    \/ \E layer \in LayerPool : MgrAddLayer(layer)
    \/ \E element \in DrawnElements(ann) : AnnStreamEvent(element)
    \/ \E value \in OptsValues : AnnSetParam("opts", value)

SpecManager == InitManager /\ [][NextManager]_vars

(***************************************************************************)
(* SpecRect: get_data on any rectangles element, either axis order.        *)
(***************************************************************************)
InitRect ==
    /\ RectInit
    /\ ann = DefaultAnnotator
    /\ mgr = DefaultManager
    /\ last = NoCall

NextRect == RectGetData

SpecRect == InitRect /\ [][NextRect]_vars

(***************************************************************************)
(* Properties.                                                             *)
(***************************************************************************)
\* the element a layer shows at present
CurrentElement(layer) == IF IsAnnotator(layer) THEN ann.object ELSE layer.value

\* the names of the annotator's tables, once for every time it is a layer
RECURSIVE ExpectedTabs(_, _)
ExpectedTabs(layers, i) ==
    IF i > Len(layers) THEN <<>>
    ELSE (IF IsAnnotator(layers[i])
          THEN [j \in DOMAIN ann._tables |-> ann._tables[j].name] ELSE <<>>)
         \o ExpectedTabs(layers, i + 1)

\* the annotation columns the element given to the constructor already had
PresentCols(annotations, element) ==
    IF IsNone(element) THEN {}
    ELSE {c \in Range(annotations.cols) : Contains(element, c)}

\* some column of cols differs between two vertices of one path
Varies(element, cols) ==
    \E c \in cols, i \in DOMAIN element.objs :
        Cardinality(Range(element.objs[i].vals[c])) > 1

\* what an initialization commits
Committed(self) == <<self.object, self._tables, self.editor, self._stream>>

\* the corners of rectangle i as the plot's axes see them
PlotX0(i) == rect.element[i][IF rect.invert_axes THEN 2 ELSE 1]

PlotY0(i) == rect.element[i][IF rect.invert_axes THEN 1 ELSE 2]

PlotX1(i) == rect.element[i][IF rect.invert_axes THEN 4 ELSE 3]

PlotY1(i) == rect.element[i][IF rect.invert_axes THEN 3 ELSE 4]

\* the element with the two corners of every rectangle exchanged
SwapCorners(element) ==
    [i \in DOMAIN element |-> <<element[i][3], element[i][4], element[i][1], element[i][2]>>]

\* C1: add_layer with an object that is neither an Annotator nor an Element
\* raises the error of a wrong layer type (a ValueError) and leaves the
\* manager's layers exactly as they were before the call, whatever was
\* added before.
C1_InvalidLayerRejected ==
    [][(last'.op = "add_layer" /\ last'.arg \notin {"Annotator", "Element"})
         => (last'.err = "ValueError" /\ mgr'.layers = mgr.layers)]_vars

C1_Witness ==
    /\ last.op = "add_layer" /\ last.arg = "str" /\ last.err = "ValueError"
    /\ Len(mgr.layers) >= 1

\* C2: once the annotator has been given to add_layer, every replacement of
\* its element (a stream update or a re-initialization) leaves the
\* manager's plot showing the annotator's new element.
C2_ManagerFollowsAnnotator ==
    (/\ MgrAlive
     /\ AnnotatorLayer \in Range(last.requested)
     /\ last.op \in {"stream_event", "set"}
     /\ last.err = NoErr)
      => \E i \in DOMAIN mgr.plot.layers : mgr.plot.layers[i] = ann.object

C2_Witness ==
    /\ MgrAlive
    /\ last.op = "add_layer" /\ last.arg = "Annotator" /\ last.err = "ValueError"
    /\ AnnotatorLayer \notin Range(mgr.layers)
    /\ \A i \in DOMAIN ann._param_watchers : ann._param_watchers[i].fn # "trigger_layers"

\* C3: after the constructor or add_layer was given valid layers only, the
\* call has succeeded, the manager's layers are the layers given in the
\* order given, the overlay holds every layer's current element in that
\* order, and the editor tabs are the tables of the annotator layers.
C3_LayersOverlayTabs ==
    (last.op \in {"AnnotationManager", "add_layer"}
     /\ last.arg \in {"none", "Annotator", "Element"})
      => /\ last.err = NoErr
         /\ mgr.layers = last.requested
         /\ HasAttr(mgr, "plot")
         /\ mgr.plot.layers = [i \in DOMAIN mgr.layers |-> CurrentElement(mgr.layers[i])]
         /\ HasAttr(mgr, "editor")
         /\ [j \in DOMAIN mgr.editor |-> mgr.editor[j].name] = ExpectedTabs(mgr.layers, 1)

C3_Witness ==
    /\ last.op = "AnnotationManager" /\ last.err = "AttributeError"
    /\ \E i \in DOMAIN last.requested : IsElement(last.requested[i])
    /\ ~HasAttr(mgr, "editor")

\* C4: a Path/Poly annotator constructed on an element that already has a
\* declared annotation column fails, with the validation error, exactly
\* when such a column differs between two vertices of a path.
C4_ValidationIffVaries ==
    (/\ last.op = "Annotator"
     /\ IsPathAnnotator(ann)
     /\ PresentCols(ann.annotations, last.input) # {})
      => /\ last.err \in {NoErr, "ValueError"}
         /\ (last.err = "ValueError")
              <=> Varies(last.input, PresentCols(ann.annotations, last.input))

C4_Witness ==
    /\ last.op = "Annotator" /\ IsPathAnnotator(ann)
    /\ PresentCols(ann.annotations, last.input) = {"a"}
    /\ ~Varies(last.input, {"a"})
    /\ last.err = "AttributeError"

\* C5: a re-initialization of a Path/Poly annotator (the classes that
\* validate) that raises commits nothing: object, the tables, the editor
\* tabs and the stream are exactly what they were before the attempt, also
\* when the attempt is the assignment of a new element to object.
C5_FailedInitCommitsNothing ==
    [][(/\ last'.op \in {"set", "trigger", "_initialize"}
        /\ last'.err # NoErr
        /\ IsPathAnnotator(ann))
         => Committed(ann') = Committed(ann)]_vars

C5_Witness ==
    /\ last.op = "set" /\ last.arg = "object" /\ last.err = "AttributeError"
    /\ IsPathAnnotator(ann) /\ Constructed(ann)
    /\ Varies(ann.object, PresentCols(ann.annotations, ann.object))
    /\ ann._stream.source # ann.object
    /\ ann.editor = ann._tables /\ ann._tables # <<>>

\* C6: an annotator of any class constructed with a dict of factories (on
\* an element C4's validation does not apply to) is initialized and has
\* every declared column on its element; a column the input already had
\* keeps its data, a new column holds the value its factory returns at
\* every vertex.
C6_DictDefaultsAreFactoryValues ==
    (/\ last.op = "Annotator"
     /\ ann.annotations.isdict
     /\ ~(IsPathAnnotator(ann) /\ PresentCols(ann.annotations, last.input) # {}))
      => /\ last.err = NoErr
         /\ \A c \in Range(ann.annotations.cols) :
           /\ Contains(ann.object, c)
           /\ \A i \in DOMAIN ann.object.objs :
                IF c \in PresentCols(ann.annotations, last.input)
                THEN ann.object.objs[i].vals[c] = last.input.objs[i].vals[c]
                ELSE \A v \in DOMAIN ann.object.objs[i].vals[c] :
                        ann.object.objs[i].vals[c][v] = Call(ann.annotations.fac[c])

C6_Witness ==
    /\ last.op = "Annotator" /\ last.err = NoErr
    /\ ann.cls = "PointAnnotator" /\ ann.annotations.isdict
    /\ \E c \in Range(ann.annotations.cols), i \in DOMAIN ann.object.objs :
          ann.object.objs[i].vals[c] = <<ann.annotations.fac[c]>>

\* C7: a re-initialization (with no new element handed to it) run on an
\* annotator that is as a re-initialization left it (no parameter was
\* changed since) leaves the
\* same element, the same tables and the same subscribers, and the stream
\* has exactly one subscriber, the element update.
C7_ReinitIdempotent ==
    [][(/\ last.settled
        /\ last'.op = "trigger" \/ (last'.op = "_initialize" /\ last'.arg = "none")
        /\ "_initialize" \in Range(last'.calls))
         => /\ ann'.object = ann.object
            /\ ann'._tables = ann._tables
            /\ ann'._stream.subscribers = ann._stream.subscribers
            /\ ann'._stream.subscribers = <<"_update_element">>]_vars

C7_Witness ==
    /\ last.op = "trigger" /\ last.err = "ValueError" /\ last.n = 2
    /\ "_initialize" \in Range(last.calls)
    /\ ann.cls = "BoxAnnotator" /\ ann.annotations.isdict
    /\ ann._stream.subscribers = <<>>
    /\ \A c \in Range(ann.annotations.cols) : Contains(ann.object, c)

\* C8: get_data returns for every rectangle a width |x1 - x0| and a height
\* |y1 - y0|, both non-negative, and the midpoint of the two corners as
\* (x, y), the corners read along the plot's axes; exchanging the two
\* corners of every rectangle gives the same data.
C8_RectGeometry ==
    rect.called =>
      /\ \A i \in DOMAIN rect.element :
           /\ rect.data.width[i] = Abs(PlotX1(i) - PlotX0(i))
           /\ rect.data.height[i] = Abs(PlotY1(i) - PlotY0(i))
           /\ rect.data.width[i] >= 0 /\ rect.data.height[i] >= 0
           /\ rect.data.x[i] = <<PlotX0(i) + PlotX1(i), 2>>
           /\ rect.data.y[i] = <<PlotY0(i) + PlotY1(i), 2>>
      /\ get_data(SwapCorners(rect.element), rect.invert_axes) = rect.data

C8_Witness ==
    /\ rect.called
    /\ \E i \in DOMAIN rect.element :
          /\ rect.element[i][3] < rect.element[i][1]
          /\ rect.element[i][2] < rect.element[i][4]
          /\ rect.data.width[i] > 0 /\ rect.data.height[i] > 0

\* C9: for every annotator class, a stream update succeeds, writes the
\* stream's element into object, runs the element update once and runs no
\* re-initialization, and the stream keeps its one subscriber.
C9_StreamUpdateWritesObject ==
    last.op = "stream_event"
      => /\ last.err = NoErr
         /\ ann.object = ann._stream.element
         /\ last.calls = <<"_update_element">>
         /\ ann._stream.subscribers = <<"_update_element">>

C9_Witness ==
    /\ last.op = "stream_event" /\ last.err = "AttributeError"
    /\ IsPathAnnotator(ann)
    /\ ann.object # ann._stream.element

\* C10: between operations on a constructed annotator batching is off and
\* nothing is left queued, also after a re-initialization that raised; and
\* no operation runs the re-initialization more than once.
C10_BatchingOnlyDuringReinit ==
    Constructed(ann)
      => /\ ~ann.param._BATCH_WATCH
         /\ ann.param._events = <<>>
         /\ \A i, j \in DOMAIN last.calls :
               (last.calls[i] = "_initialize" /\ last.calls[j] = "_initialize") => i = j

C10_Witness ==
    /\ Constructed(ann)
    /\ last.op = "set" /\ last.arg = "opts" /\ last.err = NoErr
    /\ "_initialize" \notin Range(last.calls)
    /\ ann.param._BATCH_WATCH
    /\ ann.object.options.opts # ann.opts
====
